---- MODULE Spec2Model ----
(***************************************************************************)
(* TelegramMessagePush: the desktop form of src/main.py (TelegramSender),  *)
(* its config store (load_config / save_config) and the request layer of   *)
(* src/telegram.py (TelegramHelper).                                       *)
(*                                                                         *)
(* Text is modelled as a sequence of one-character strings, so that        *)
(* str.strip(), len(), "in" and the JSON string escaping are computed and  *)
(* not assumed.  The config file is modelled by its JSON lexemes.          *)
(***************************************************************************)
EXTENDS Integers, Sequences, FiniteSets, TLC

(***************************************************************************)
(* Bounds of the model and constants of the program.                       *)
(***************************************************************************)
\* longest credential body the credential specification types in
MaxTokenLen == 12
\* most button rows the button specification fills in at once
MaxFilledRows == 3
\* main.py:352  len(token) > 10
TokenMinLen == 10
\* main.py:245  for i in range(6)
NumButtons == 6

None == "None"

(***************************************************************************)
(* Text.                                                                   *)
(***************************************************************************)
\* the characters str.strip() removes (those that occur in the model)
Whitespace == {" ", "\n", "\t"}

RECURSIVE LStrip(_)
LStrip(s) ==
    IF s = <<>> THEN s
    ELSE IF s[1] \in Whitespace THEN LStrip(Tail(s)) ELSE s

RECURSIVE RStrip(_)
RStrip(s) ==
    IF s = <<>> THEN s
    ELSE IF s[Len(s)] \in Whitespace THEN RStrip(SubSeq(s, 1, Len(s) - 1)) ELSE s

\* str.strip()
Strip(s) == RStrip(LStrip(s))

\* c in s
Contains(s, c) == \E i \in 1..Len(s) : s[i] = c

\* a credential body of n characters with ':' at position p (none when p = 0)
Body(n, p) == [i \in 1..n |-> IF i = p THEN ":" ELSE "a"]

Blanks(n) == [i \in 1..n |-> " "]

(***************************************************************************)
(* TelegramSender.is_token_valid                                           *)
(***************************************************************************)
\* variant: >= for >
is_token_valid_ge(token) == Contains(token, ":") /\ Len(token) >= TokenMinLen

is_token_valid(token) == Contains(token, ":") /\ Len(token) > TokenMinLen

(***************************************************************************)
(* TelegramSender.get_buttons, over the six rows of line edits.            *)
(***************************************************************************)
Button(text, url) == [text |-> text, url |-> url]

RECURSIVE CollectButtons(_, _, _)
CollectButtons(texts, urls, i) ==
    IF i > Len(texts) \/ i > Len(urls) THEN <<>>
    ELSE LET text == Strip(texts[i])
             url  == Strip(urls[i])
         IN  (IF text # <<>> /\ url # <<>> THEN <<Button(text, url)>> ELSE <<>>)
                \o CollectButtons(texts, urls, i + 1)

\* variant: the cells are not stripped
RECURSIVE CollectButtonsNoStrip(_, _, _)
CollectButtonsNoStrip(texts, urls, i) ==
    IF i > Len(texts) \/ i > Len(urls) THEN <<>>
    ELSE (IF texts[i] # <<>> /\ urls[i] # <<>>
          THEN <<Button(texts[i], urls[i])>> ELSE <<>>)
            \o CollectButtonsNoStrip(texts, urls, i + 1)

get_buttons_no_strip(texts, urls) == CollectButtonsNoStrip(texts, urls, 1)

get_buttons(texts, urls) == CollectButtons(texts, urls, 1)

(***************************************************************************)
(* TelegramHelper: the reply markup and the four calls.  A helper call     *)
(* returns the bot calls it made and the exception it raised (NoError when *)
(* it returned).  env is what the outside world does during the call:      *)
(* env.open for open(path, 'rb'), env.api for the bot call.                *)
(***************************************************************************)
NoError == "ok"

NoMarkup == [set |-> FALSE, keyboard |-> <<>>]

\* markup = None; if buttons: markup = InlineKeyboardMarkup(); add each
\* button whose text and url are both non-empty
BuildMarkup(buttons) ==
    IF buttons = <<>> THEN NoMarkup
    ELSE [set |-> TRUE,
          keyboard |-> SelectSeq(buttons, LAMBDA b : b.text # <<>> /\ b.url # <<>>)]

BotCall(method, chat_id, text, file, markup) ==
    [method |-> method, chat_id |-> chat_id, text |-> text, file |-> file,
     markup |-> markup]

helper_send_message(chat_id, text, buttons, env) ==
    [calls |-> <<BotCall("send_message", chat_id, text, None, BuildMarkup(buttons))>>,
     error |-> env.api]

MediaCall(method, chat_id, path, caption, buttons, env) ==
    IF env.open # NoError
    THEN [calls |-> <<>>, error |-> env.open]
    ELSE [calls |-> <<BotCall(method, chat_id, caption, path, BuildMarkup(buttons))>>,
          error |-> env.api]

helper_send_photo(chat_id, photo_path, caption, buttons, env) ==
    MediaCall("send_photo", chat_id, photo_path, caption, buttons, env)

helper_send_video(chat_id, video_path, caption, buttons, env) ==
    MediaCall("send_video", chat_id, video_path, caption, buttons, env)

helper_send_document(chat_id, file_path, caption, buttons, env) ==
    MediaCall("send_document", chat_id, file_path, caption, buttons, env)

\* what the outside world may do during one send: TeleBot(token) returns or
\* raises, open() returns or raises, the bot call returns or raises
Envs == [init : {NoError, "ValueError"},
         open : {NoError, "OSError"},
         api  : {NoError, "ApiException"}]

(***************************************************************************)
(* The config file and JSON.  The file is absent, holds bytes that are not *)
(* UTF-8, or holds text, modelled by its sequence of JSON lexemes:         *)
(*   [t |-> "{" | "}" | "[" | "]" | ":" | "," | "null", s |-> <<>>]        *)
(*   [t |-> "key", s |-> <<name>>]     an object key, a string literal     *)
(*   [t |-> "str", s |-> characters between the quotes, escaped]           *)
(*   [t |-> "num", s |-> digits]                                           *)
(* A JSON scalar in memory is [t |-> "str" | "num" | "null", s |-> text];  *)
(* a loaded document is [kind |-> "dict" | "list" | "scalar", items |->    *)
(* sequence of [k |-> key, v |-> scalar] in insertion order].              *)
(***************************************************************************)
Lx(t) == [t |-> t, s |-> <<>>]

KeyLx(k) == [t |-> "key", s |-> <<k>>]

Str(s) == [t |-> "str", s |-> s]

Num(s) == [t |-> "num", s |-> s]

Dict(items) == [kind |-> "dict", items |-> items]

EmptyDict == Dict(<<>>)

Item(k, v) == [k |-> k, v |-> v]

\* variant: nothing is escaped
EscapeNothing(s) == s

\* json.encoder.py_encode_basestring: '"' and '\' are written escaped
RECURSIVE Escape(_)
Escape(s) ==
    IF s = <<>> THEN <<>>
    ELSE (IF s[1] \in {"\"", "\\"} THEN <<"\\", s[1]>> ELSE <<s[1]>>)
            \o Escape(Tail(s))

\* json.decoder.py_scanstring on the text between the quotes
RECURSIVE Unescape(_)
Unescape(e) ==
    IF e = <<>> THEN [ok |-> TRUE, s |-> <<>>]
    ELSE IF e[1] = "\\"
         THEN IF Len(e) >= 2 /\ e[2] \in {"\"", "\\"}
              THEN LET r == Unescape(SubSeq(e, 3, Len(e)))
                   IN  [ok |-> r.ok, s |-> <<e[2]>> \o r.s]
              ELSE [ok |-> FALSE, s |-> <<>>]
         ELSE IF e[1] = "\""
              THEN [ok |-> FALSE, s |-> <<>>]
              ELSE LET r == Unescape(Tail(e))
                   IN  [ok |-> r.ok, s |-> <<e[1]>> \o r.s]

\* the lexemes json.dump writes for a scalar
DumpScalar(v) ==
    IF v.t = "str" THEN [t |-> "str", s |-> Escape(v.s)]
    ELSE [t |-> v.t, s |-> v.s]

RECURSIVE DumpItems(_)
DumpItems(items) ==
    IF items = <<>> THEN <<>>
    ELSE <<KeyLx(items[1].k), Lx(":"), DumpScalar(items[1].v)>>
            \o (IF Len(items) > 1 THEN <<Lx(",")>> ELSE <<>>)
            \o DumpItems(Tail(items))

\* json.dump(data, f, ensure_ascii=False, indent=2)
json_dump(data) ==
    IF data.kind = "dict" THEN <<Lx("{")>> \o DumpItems(data.items) \o <<Lx("}")>>
    ELSE IF data.kind = "list" THEN <<Lx("["), Lx("]")>>
    ELSE <<DumpScalar(data.items[1].v)>>

\* d[key] = value on an insertion-ordered dict
RECURSIVE DictSetItems(_, _, _)
DictSetItems(items, k, v) ==
    IF items = <<>> THEN <<Item(k, v)>>
    ELSE IF items[1].k = k THEN <<Item(k, v)>> \o Tail(items)
    ELSE <<items[1]>> \o DictSetItems(Tail(items), k, v)

DictSet(d, k, v) == Dict(DictSetItems(d.items, k, v))

DictHas(d, k) == \E i \in 1..Len(d.items) : d.items[i].k = k

\* d.get(key, default)
DictGet(d, k, default) ==
    IF DictHas(d, k)
    THEN d.items[CHOOSE i \in 1..Len(d.items) : d.items[i].k = k].v
    ELSE default

ParseFail == [ok |-> FALSE, doc |-> EmptyDict]

IsScalarLx(l) == l.t \in {"num", "null"} \/ (l.t = "str" /\ Unescape(l.s).ok)

ScalarOf(l) == IF l.t = "str" THEN Str(Unescape(l.s).s) ELSE [t |-> l.t, s |-> l.s]

\* the members of an object from lexeme i on: key ':' scalar, then ',' or '}'
RECURSIVE ParseMembers(_, _, _)
ParseMembers(lex, i, acc) ==
    IF i + 3 > Len(lex) THEN ParseFail
    ELSE IF ~(lex[i].t = "key" /\ lex[i + 1].t = ":" /\ IsScalarLx(lex[i + 2]))
         THEN ParseFail
         ELSE LET acc2 == DictSet(acc, lex[i].s[1], ScalarOf(lex[i + 2]))
              IN  IF lex[i + 3].t = "}"
                  THEN IF i + 3 = Len(lex) THEN [ok |-> TRUE, doc |-> acc2]
                       ELSE ParseFail
                  ELSE IF lex[i + 3].t = ","
                       THEN ParseMembers(lex, i + 4, acc2)
                       ELSE ParseFail

\* json.load on the text of the file
json_load(lex) ==
    IF lex = <<>> THEN ParseFail
    ELSE IF lex[1].t = "{"
         THEN IF Len(lex) = 2 /\ lex[2].t = "}"
              THEN [ok |-> TRUE, doc |-> EmptyDict]
              ELSE ParseMembers(lex, 2, EmptyDict)
         ELSE IF lex[1].t = "["
              THEN IF Len(lex) = 2 /\ lex[2].t = "]"
                   THEN [ok |-> TRUE, doc |-> [kind |-> "list", items |-> <<>>]]
                   ELSE ParseFail
              ELSE IF Len(lex) = 1 /\ IsScalarLx(lex[1])
                   THEN [ok |-> TRUE,
                         doc |-> [kind |-> "scalar",
                                  items |-> <<Item("", ScalarOf(lex[1]))>>]]
                   ELSE ParseFail

Absent == [state |-> "absent", lex |-> <<>>]

NotUtf8 == [state |-> "not utf-8", lex |-> <<>>]

Text(lex) == [state |-> "text", lex |-> lex]

\* load_config() on a file: any exception of open() or json.load gives {}
load_config_of(file) ==
    IF file.state # "text" THEN EmptyDict
    ELSE LET r == json_load(file.lex)
         IN  IF r.ok THEN r.doc ELSE EmptyDict

\* the file after save_config(data) wrote its first k lexemes: open(.., "w")
\* truncates, json.dump writes on
Written(data, k) == Text(SubSeq(json_dump(data), 1, k))

\* the file after a completed save_config(data)
save_config_of(data) == Written(data, Len(json_dump(data)))

(***************************************************************************)
(* The state.  disk is the config file, the only state that outlives the   *)
(* process; the rest is the window (TelegramSender) of the running         *)
(* process.  op, status and calls describe the handler that ran last: its  *)
(* name, the message it showed in the status bar and the bot calls it      *)
(* made.  afterMediaSend records that the held attachment was last changed *)
(* by the clear_file of a successful media send.                           *)
(***************************************************************************)
VARIABLES phase, disk, config, token_edit, chatid_edit, msg_edit,
          file_path, file_type, btn_text_edits, btn_url_edits, send_btn,
          op, status, calls, afterMediaSend

vars == <<phase, disk, config, token_edit, chatid_edit, msg_edit,
          file_path, file_type, btn_text_edits, btn_url_edits, send_btn,
          op, status, calls, afterMediaSend>>

fields == <<token_edit, chatid_edit, msg_edit, btn_text_edits, btn_url_edits>>

held == <<file_path, file_type>>

\* the status bar messages
Shown(msg, detail) == [msg |-> msg, detail |-> detail]

NoStatus == Shown("", "")

\* main.py:282, 375  "Token格式错误，必须包含冒号"
TokenFormatError == "InvalidCredentialFormat"

\* main.py:295, 378  "Chat ID不能为空"
ChatIdEmpty == "MissingChatTarget"

\* main.py:381  "消息内容或文件不能为空"
PayloadEmpty == "EmptyPayload"

\* main.py:386  "Bot初始化失败: ..."
BotInitFailed == "BotInitFailed"

\* main.py:404  "发送失败: ..."
SendFailed == "DispatchFailed"

\* main.py:400  "消息已发送"
Sent == "Sent"

Valid == "valid"

EmptyRows == [i \in 1..NumButtons |-> <<>>]

\* "if x" is false: of a text, of a path (None or '')
Falsy(x) == x = <<>>

NoPath(p) == p = None \/ p = ""

(***************************************************************************)
(* TelegramSender.send_message, in its parts.                              *)
(***************************************************************************)
\* variants: the chat identifier check, the payload check left out
ValidateNoChatCheck(token, chat_id, msg, path) ==
    IF ~is_token_valid(token) THEN TokenFormatError
    ELSE IF Falsy(msg) /\ NoPath(path) THEN PayloadEmpty
    ELSE Valid

ValidateNoPayloadCheck(token, chat_id, msg, path) ==
    IF ~is_token_valid(token) THEN TokenFormatError
    ELSE IF Falsy(chat_id) THEN ChatIdEmpty
    ELSE Valid

\* lines 374-382: the three checks, in the order of the code
Validate(token, chat_id, msg, path) ==
    IF ~is_token_valid(token) THEN TokenFormatError
    ELSE IF Falsy(chat_id) THEN ChatIdEmpty
    ELSE IF Falsy(msg) /\ NoPath(path) THEN PayloadEmpty
    ELSE Valid

\* variant: the video branch left out
DispatchVideoAsDocument(chat_id, msg, path, type, buttons, env) ==
    IF ~NoPath(path)
    THEN IF type = "image"
         THEN helper_send_photo(chat_id, path, msg, buttons, env)
         ELSE helper_send_document(chat_id, path, msg, buttons, env)
    ELSE helper_send_message(chat_id, msg, buttons, env)

\* lines 390-399: the one helper call of a send
Dispatch(chat_id, msg, path, type, buttons, env) ==
    IF ~NoPath(path)
    THEN IF type = "image"
         THEN helper_send_photo(chat_id, path, msg, buttons, env)
         ELSE IF type = "video"
              THEN helper_send_video(chat_id, path, msg, buttons, env)
              ELSE helper_send_document(chat_id, path, msg, buttons, env)
    ELSE helper_send_message(chat_id, msg, buttons, env)

\* variants: clear_file() never runs, runs whatever the call did
HeldAfterSendKeep(path, type, error) == <<path, type>>

HeldAfterSendAlwaysClear(path, type, error) == <<None, None>>

\* lines 390-397 and 401: the held attachment after the helper call:
\* clear_file() runs only when a media call returned
HeldAfterSend(path, type, error) ==
    IF ~NoPath(path) /\ error = NoError THEN <<None, None>> ELSE <<path, type>>

\* update_send_btn_state
SendEnabled(token, chat_id, msg, path) ==
    is_token_valid(Strip(token)) /\ ~Falsy(Strip(chat_id))
        /\ (~Falsy(Strip(msg)) \/ ~NoPath(path))

\* The method runs on send_btn.clicked and on a direct call; it is modelled
\* as callable whatever send_btn is, since its own three checks are what
\* decides a request (the button is enabled exactly when they would pass).
send_message(env) ==
    /\ phase = "running"
    /\ LET token   == Strip(token_edit)
           chat_id == Strip(chatid_edit)
           msg     == Strip(msg_edit)
           v       == Validate(token, chat_id, msg, file_path)
           buttons == get_buttons(btn_text_edits, btn_url_edits)
           r       == Dispatch(chat_id, msg, file_path, file_type, buttons, env)
           h       == HeldAfterSend(file_path, file_type, r.error)
       IN  IF v # Valid
           THEN /\ status' = Shown(v, "")
                /\ calls' = <<>>
                /\ UNCHANGED <<held, send_btn, afterMediaSend>>
           ELSE IF env.init # NoError
                THEN /\ status' = Shown(BotInitFailed, env.init)
                     /\ calls' = <<>>
                     /\ UNCHANGED <<held, send_btn, afterMediaSend>>
                ELSE /\ calls' = r.calls
                     /\ status' = IF r.error = NoError THEN Shown(Sent, "")
                                  ELSE Shown(SendFailed, r.error)
                     /\ file_path' = h[1]
                     /\ file_type' = h[2]
                     /\ send_btn' = IF h[1] # file_path
                                    THEN SendEnabled(token_edit, chatid_edit, msg_edit, h[1])
                                    ELSE send_btn
                     /\ afterMediaSend' = IF ~NoPath(file_path) /\ NoPath(h[1])
                                          THEN TRUE ELSE afterMediaSend
    /\ op' = "send_message"
    /\ UNCHANGED <<phase, disk, config, fields>>

(***************************************************************************)
(* The other handlers of the window.                                       *)
(***************************************************************************)
Quiet(name) ==
    /\ op' = name
    /\ status' = NoStatus
    /\ calls' = <<>>

\* the user types in the token field; textChanged runs update_send_btn_state
EditToken(t) ==
    /\ phase = "running"
    /\ token_edit' = t
    /\ send_btn' = SendEnabled(t, chatid_edit, msg_edit, file_path)
    /\ Quiet("edit")
    /\ UNCHANGED <<phase, disk, config, chatid_edit, msg_edit, held,
                   btn_text_edits, btn_url_edits, afterMediaSend>>

EditChatId(c) ==
    /\ phase = "running"
    /\ chatid_edit' = c
    /\ send_btn' = SendEnabled(token_edit, c, msg_edit, file_path)
    /\ Quiet("edit")
    /\ UNCHANGED <<phase, disk, config, token_edit, msg_edit, held,
                   btn_text_edits, btn_url_edits, afterMediaSend>>

EditMsg(m) ==
    /\ phase = "running"
    /\ msg_edit' = m
    /\ send_btn' = SendEnabled(token_edit, chatid_edit, m, file_path)
    /\ Quiet("edit")
    /\ UNCHANGED <<phase, disk, config, token_edit, chatid_edit, held,
                   btn_text_edits, btn_url_edits, afterMediaSend>>

\* the user types in row i of the button grid (no handler is connected)
EditButton(i, text, url) ==
    /\ phase = "running"
    /\ btn_text_edits' = [btn_text_edits EXCEPT ![i] = text]
    /\ btn_url_edits' = [btn_url_edits EXCEPT ![i] = url]
    /\ Quiet("edit")
    /\ UNCHANGED <<phase, disk, config, token_edit, chatid_edit, msg_edit,
                   held, send_btn, afterMediaSend>>

\* choose_file(filetype); path is what the file dialog returns, '' when the
\* user cancels it
choose_file(filetype, path) ==
    /\ phase = "running"
    /\ IF path # ""
       THEN /\ file_path' = path
            /\ file_type' = filetype
            /\ afterMediaSend' = FALSE
       ELSE /\ file_path' = None
            /\ file_type' = None
            /\ UNCHANGED afterMediaSend
    /\ send_btn' = SendEnabled(token_edit, chatid_edit, msg_edit, file_path')
    /\ Quiet("choose_file")
    /\ UNCHANGED <<phase, disk, config, fields>>

clear_file ==
    /\ phase = "running"
    /\ file_path' = None
    /\ file_type' = None
    /\ send_btn' = SendEnabled(token_edit, chatid_edit, msg_edit, None)
    /\ Quiet("clear_file")
    /\ UNCHANGED <<phase, disk, config, fields, afterMediaSend>>

save_token ==
    /\ phase = "running"
    /\ LET token == Strip(token_edit)
       IN  IF ~is_token_valid(token)
           THEN /\ status' = Shown(TokenFormatError, "")
                /\ UNCHANGED <<config, disk>>
           ELSE /\ config' = DictSet(config, "token", Str(token))
                /\ disk' = save_config_of(config')
                /\ status' = Shown("Token saved", "")
    /\ op' = "save_token"
    /\ calls' = <<>>
    /\ UNCHANGED <<phase, fields, held, send_btn, afterMediaSend>>

save_chatid ==
    /\ phase = "running"
    /\ LET chat_id == Strip(chatid_edit)
       IN  IF Falsy(chat_id)
           THEN /\ status' = Shown(ChatIdEmpty, "")
                /\ UNCHANGED <<config, disk>>
           ELSE /\ config' = DictSet(config, "chat_id", Str(chat_id))
                /\ disk' = save_config_of(config')
                /\ status' = Shown("Chat ID saved", "")
    /\ op' = "save_chatid"
    /\ calls' = <<>>
    /\ UNCHANGED <<phase, fields, held, send_btn, afterMediaSend>>

(***************************************************************************)
(* The life of the process.                                                *)
(***************************************************************************)
\* no process: nothing but the file
NoWindow ==
    /\ config' = EmptyDict
    /\ token_edit' = <<>>
    /\ chatid_edit' = <<>>
    /\ msg_edit' = <<>>
    /\ file_path' = None
    /\ file_type' = None
    /\ btn_text_edits' = EmptyRows
    /\ btn_url_edits' = EmptyRows
    /\ send_btn' = FALSE
    /\ calls' = <<>>
    /\ afterMediaSend' = FALSE

\* the text QLineEdit(v) shows: v when it is a str, nothing when it is None
EditText(v) == IF v.t = "str" THEN v.s ELSE <<>>

\* TelegramSender.__init__ and init_ui: load_config(), then the two line
\* edits are built from self.config.get(...).  A document that is no dict
\* has no .get (AttributeError); QLineEdit takes a str as its text and None
\* as "no parent" and refuses a number (TypeError): the exception leaves
\* __init__ and the process ends.
Start ==
    /\ phase = "stopped"
    /\ LET cfg     == load_config_of(disk)
           token   == DictGet(cfg, "token", Str(<<>>))
           chat_id == DictGet(cfg, "chat_id", Str(<<>>))
       IN  IF cfg.kind # "dict"
           THEN /\ phase' = "crashed"
                /\ status' = Shown("uncaught", "AttributeError")
                /\ NoWindow
           ELSE IF token.t = "num" \/ chat_id.t = "num"
                THEN /\ phase' = "crashed"
                     /\ status' = Shown("uncaught", "TypeError")
                     /\ NoWindow
                ELSE /\ phase' = "running"
                     /\ status' = NoStatus
                     /\ config' = cfg
                     /\ token_edit' = EditText(token)
                     /\ chatid_edit' = EditText(chat_id)
                     /\ msg_edit' = <<>>
                     /\ file_path' = None
                     /\ file_type' = None
                     /\ btn_text_edits' = EmptyRows
                     /\ btn_url_edits' = EmptyRows
                     /\ send_btn' = SendEnabled(EditText(token), EditText(chat_id), <<>>, None)
                     /\ calls' = <<>>
                     /\ afterMediaSend' = FALSE
    /\ op' = "__init__"
    /\ UNCHANGED disk

\* the user closes the window
Exit ==
    /\ phase = "running"
    /\ phase' = "stopped"
    /\ op' = "exit"
    /\ status' = NoStatus
    /\ NoWindow
    /\ UNCHANGED disk

\* the process is killed while save_config(data) has written k lexemes
Killed(name, data, k) ==
    /\ phase' = "stopped"
    /\ disk' = Written(data, k)
    /\ op' = name
    /\ status' = NoStatus
    /\ NoWindow

save_token_killed ==
    /\ phase = "running"
    /\ is_token_valid(Strip(token_edit))
    /\ LET data == DictSet(config, "token", Str(Strip(token_edit)))
       IN  \E k \in 0..(Len(json_dump(data)) - 1) :
               Killed("save_token killed", data, k)

save_chatid_killed ==
    /\ phase = "running"
    /\ ~Falsy(Strip(chatid_edit))
    /\ LET data == DictSet(config, "chat_id", Str(Strip(chatid_edit)))
       IN  \E k \in 0..(Len(json_dump(data)) - 1) :
               Killed("save_chatid killed", data, k)

(***************************************************************************)
(* What the user types and what the file may hold.                         *)
(***************************************************************************)
\* a credential that passes the check, and one with characters JSON escapes
GoodToken == Body(TokenMinLen + 1, 7)

QuotedToken == <<"1", ":", "\\", "\"">> \o Body(TokenMinLen - 2, 0)

TokenInputs == { <<>>, <<" ">> \o Body(TokenMinLen, 7) \o <<" ">>, GoodToken }

\* every body of up to MaxTokenLen characters with at most one ':', bare or
\* with a blank on both sides
AllTokens ==
    UNION { { Blanks(l) \o Body(n, p) \o Blanks(l) : p \in 0..n, l \in {0, 1} } :
            n \in 0..MaxTokenLen }

ChatInputs == { <<>>, <<"9", " ">> }

MsgInputs == { <<>>, <<"h", "i", "\n">> }

FileTypes == {"image", "video", "file"}

\* what the file dialog returns: '' when cancelled
PathInputs == {"", "a.bin"}

\* what the user types in button row i, <<text, url>>: nothing, a blank, or
\* a label that names the row
Digit(i) == <<"1", "2", "3", "4", "5", "6", "7">>[i]

Cells(i) ==
    { <<<<>>, <<>>>>, <<<<>>, <<"u">>>>, <<<<" ">>, <<"u">>>>,
      <<<<Digit(i), " ">>, <<>>>>, <<<<Digit(i), " ">>, <<" ", "u">>>> }

FilledRows(texts, urls) ==
    Cardinality({ i \in 1..NumButtons : texts[i] # <<>> \/ urls[i] # <<>> })

StoredDicts ==
    { EmptyDict,
      Dict(<<Item("token", Str(GoodToken))>>),
      Dict(<<Item("chat_id", Str(<<"9">>))>>),
      Dict(<<Item("token", Str(GoodToken)), Item("chat_id", Str(<<"9">>))>>),
      Dict(<<Item("chat_id", Str(<<"9">>)), Item("token", Str(QuotedToken))>>),
      Dict(<<Item("lang", Str(<<"e", "n">>)), Item("token", Str(GoodToken))>>),
      Dict(<<Item("token", Num(<<"5">>))>>),
      Dict(<<Item("chat_id", [t |-> "null", s |-> <<>>])>>) }

DiskInputs ==
    { Absent, NotUtf8, Text(<<>>) }
      \cup { Text(json_dump(d)) : d \in StoredDicts }
      \cup { Text(<<Lx("["), Lx("]")>>),
             Text(<<Lx("null")>>),
             Text(<<[t |-> "str", s |-> <<"x">>]>>),
             Text(<<Lx("{"), KeyLx("token"), Lx(":")>>),
             Text(<<Lx("{"), KeyLx("token"), Lx(":"), [t |-> "str", s |-> <<"\\", "a">>],
                    Lx("}")>>),
             Text(<<Lx("{"), KeyLx("token"), Lx(":"), [t |-> "str", s |-> <<"x">>],
                    Lx(","), KeyLx("token"), Lx(":"), [t |-> "str", s |-> GoodToken],
                    Lx("}")>>),
             Text(<<Lx("{"), Lx("}"), Lx("}")>>) }

(***************************************************************************)
(* Specifications.  Before the process starts there is only the file.      *)
(***************************************************************************)
InitOn(files) ==
    /\ phase = "stopped"
    /\ disk \in files
    /\ config = EmptyDict
    /\ token_edit = <<>>
    /\ chatid_edit = <<>>
    /\ msg_edit = <<>>
    /\ file_path = None
    /\ file_type = None
    /\ btn_text_edits = EmptyRows
    /\ btn_url_edits = EmptyRows
    /\ send_btn = FALSE
    /\ op = "none"
    /\ status = NoStatus
    /\ calls = <<>>
    /\ afterMediaSend = FALSE

Fields(tokens, chats, msgs) ==
    \/ \E t \in tokens : EditToken(t)
    \/ \E c \in chats : EditChatId(c)
    \/ \E m \in msgs : EditMsg(m)

Buttons(rows, limit) ==
    \E i \in rows : \E c \in Cells(i) :
        /\ EditButton(i, c[1], c[2])
        /\ FilledRows(btn_text_edits', btn_url_edits') <= limit

Files ==
    \/ \E ft \in FileTypes, path \in PathInputs : choose_file(ft, path)
    \/ clear_file

Sends == \E env \in Envs : send_message(env)

Saves == save_token \/ save_chatid

Kills == save_token_killed \/ save_chatid_killed

\* every handler of the program, on a first run, a configured run and a file
\* holding [] (a process killed inside save_config is part of SpecConfig)
Init ==
    InitOn({ Absent,
             Text(json_dump(Dict(<<Item("token", Str(GoodToken)),
                                   Item("chat_id", Str(<<"9">>))>>))),
             Text(<<Lx("["), Lx("]")>>) })

Next ==
    \/ Start
    \/ Exit
    \/ Fields(TokenInputs, ChatInputs, MsgInputs)
    \/ Buttons({3}, 1)
    \/ Files
    \/ Sends
    \/ Saves

Spec == Init /\ [][Next]_vars

\* the credential check, over every credential of AllTokens
InitCred == InitOn({Absent})

NextCred ==
    \/ Start
    \/ Fields(AllTokens, { <<>>, <<"9">> }, { <<>>, <<"h", "i">> })
    \/ \E ft \in {"image"} : choose_file(ft, "a.bin")
    \/ Sends

SpecCred == InitCred /\ [][NextCred]_vars

\* the button grid, over every grid with at most MaxFilledRows rows filled in
InitButtons ==
    InitOn({ Text(json_dump(Dict(<<Item("token", Str(GoodToken)),
                                   Item("chat_id", Str(<<"9">>))>>))) })

NextButtons ==
    \/ Start
    \/ \E m \in { <<"h", "i">> } : EditMsg(m)
    \/ Buttons(1..NumButtons, MaxFilledRows)
    \/ Sends

SpecButtons == InitButtons /\ [][NextButtons]_vars

\* the config store, over every file of DiskInputs
InitConfig == InitOn(DiskInputs)

NextConfig ==
    \/ Start
    \/ Exit
    \/ Fields({ <<>>, GoodToken, QuotedToken, <<" ">> \o GoodToken },
              { <<>>, <<"9", " ">>, <<"-", "1">> }, {})
    \/ Saves
    \/ Kills

SpecConfig == InitConfig /\ [][NextConfig]_vars

(***************************************************************************)
(* The claims.  A step is a send action when op' = "send_message"; the     *)
(* unprimed fields are the request it read, the primed op, status and      *)
(* calls are what it did.                                                  *)
(***************************************************************************)
SendStep == op' = "send_message"

\* the request passes the three validation rules of the specification
ValidRequest ==
    /\ Contains(Strip(token_edit), ":")
    /\ Len(Strip(token_edit)) > TokenMinLen
    /\ Strip(chatid_edit) # <<>>
    /\ (Strip(msg_edit) # <<>> \/ file_path # None)

\* the call variant of an attachment kind
MethodFor(type) ==
    CASE type = "image" -> "send_photo"
      [] type = "video" -> "send_video"
      [] type = "file"  -> "send_document"
      [] OTHER          -> "send_message"

\* C1 as stated: every request that passes validation fires exactly one
\* call, send-photo for an image, send-video for a video, send-document for
\* a generic file and send-text when no attachment is held.
C1_ExactlyOneCall ==
    [][ SendStep /\ ValidRequest
          => Len(calls') = 1 /\ calls'[1].method = MethodFor(file_type) ]_vars

\* C1 as amended: a request that passes validation fires at most one call
\* and never a call of another variant than the one of the held attachment
\* kind; it fires exactly one call unless the bot client could not be built
\* or the attachment file could not be opened, and then it fires none.
C1_RoutingTotalExclusive ==
    [][ SendStep /\ ValidRequest
          => /\ Len(calls') <= 1
             /\ \A i \in 1..Len(calls') : calls'[i].method = MethodFor(file_type)
             /\ Len(calls') = 0 <=>
                    \/ status'.msg = BotInitFailed
                    \/ status' = Shown(SendFailed, "OSError") ]_vars

C1_Witness ==
    /\ op = "send_message"
    /\ status.msg = Sent
    /\ Len(calls) = 1
    /\ calls[1].method = "send_video"

\* C2: a send action whose credential has no ':' or has at most TokenMinLen
\* characters is rejected with InvalidCredentialFormat and makes no call,
\* whatever the chat identifier, the text, the attachment and the buttons.
C2_BadCredentialRejected ==
    [][ SendStep /\ (~Contains(token_edit, ":") \/ Len(token_edit) <= TokenMinLen)
          => status' = Shown(TokenFormatError, "") /\ calls' = <<>> ]_vars

C2_Witness ==
    /\ op = "send_message"
    /\ status.msg = TokenFormatError
    /\ Contains(token_edit, ":")
    /\ Len(token_edit) = TokenMinLen
    /\ Strip(chatid_edit) # <<>>
    /\ Strip(msg_edit) # <<>>
    /\ file_path # None

\* C3 as stated: a send action with an empty chat identifier is rejected
\* with MissingChatTarget and makes no call.
C3_EmptyChatRejected ==
    [][ SendStep /\ chatid_edit = <<>>
          => status'.msg = ChatIdEmpty /\ calls' = <<>> ]_vars

\* C3 as amended: a send action with an empty chat identifier makes no
\* call, and it is rejected with MissingChatTarget when its credential
\* passes the format check (the credential is checked first).
C3_EmptyChatRejectedAfterCredential ==
    [][ SendStep /\ chatid_edit = <<>>
          => /\ calls' = <<>>
             /\ status'.msg \in {TokenFormatError, ChatIdEmpty}
             /\ (Contains(Strip(token_edit), ":") /\ Len(Strip(token_edit)) > TokenMinLen
                    => status' = Shown(ChatIdEmpty, "")) ]_vars

C3_Witness ==
    /\ op = "send_message"
    /\ status.msg = ChatIdEmpty
    /\ chatid_edit = <<>>
    /\ Strip(msg_edit) # <<>>
    /\ file_path # None

\* C4 as stated: a send action with empty text and no attachment held is
\* rejected with EmptyPayload and makes no call.
C4_EmptyPayloadRejected ==
    [][ SendStep /\ msg_edit = <<>> /\ file_path = None
          => status'.msg = PayloadEmpty /\ calls' = <<>> ]_vars

\* C4 as amended: a send action with empty text and no attachment held
\* makes no call, and it is rejected with EmptyPayload when its credential
\* passes the format check and its chat identifier is not empty (those two
\* are checked first).
C4_EmptyPayloadRejectedLast ==
    [][ SendStep /\ msg_edit = <<>> /\ file_path = None
          => /\ calls' = <<>>
             /\ status'.msg \in {TokenFormatError, ChatIdEmpty, PayloadEmpty}
             /\ ((Contains(Strip(token_edit), ":")
                    /\ Len(Strip(token_edit)) > TokenMinLen
                    /\ Strip(chatid_edit) # <<>>)
                   => status' = Shown(PayloadEmpty, "")) ]_vars

C4_Witness ==
    /\ op = "send_message"
    /\ status.msg = PayloadEmpty
    /\ msg_edit = <<>>
    /\ file_path = None

\* C5: a send action that used an attachment and succeeded leaves no
\* attachment held (path and kind are None); from then on, until a file is
\* chosen, none is held and a send action never makes a media call: the
\* call it makes is send-text.
C5_ClearedAfterMediaSend ==
    [][ /\ (SendStep /\ file_path # None /\ status'.msg = Sent
              => file_path' = None /\ file_type' = None /\ afterMediaSend')
        /\ (afterMediaSend => file_path = None /\ file_type = None)
        /\ (SendStep /\ afterMediaSend
              => /\ \A i \in 1..Len(calls') : calls'[i].method = "send_message"
                 /\ (Strip(msg_edit) # <<>> /\ status'.msg \in {Sent, SendFailed}
                        => Len(calls') = 1 /\ calls'[1].method = "send_message")) ]_vars

C5_Witness ==
    /\ afterMediaSend
    /\ op = "send_message"
    /\ status.msg = Sent
    /\ Len(calls) = 1
    /\ calls[1].method = "send_message"

\* the rows of the grid whose label and url, as the form reads them
\* (trimmed), are both non-empty
ValidRows ==
    { i \in 1..NumButtons : Strip(btn_text_edits[i]) # <<>> /\ Strip(btn_url_edits[i]) # <<>> }

\* C6: the button list of the outgoing call is exactly the rows of the grid
\* whose label and url are both non-empty, in the order of the grid: no
\* other row appears, none is dropped or reordered, the helper's re-check
\* removes nothing, and no markup is attached when no row is valid.
C6_ButtonsFilteredInOrder ==
    \A c \in 1..Len(calls) :
        LET kb == calls[c].markup.keyboard
        IN  /\ Len(kb) = Cardinality(ValidRows)
            /\ \A i \in ValidRows :
                   kb[Cardinality({ j \in ValidRows : j <= i })]
                       = Button(Strip(btn_text_edits[i]), Strip(btn_url_edits[i]))
            /\ \A k \in 1..Len(kb) : kb[k].text # <<>> /\ kb[k].url # <<>>
            /\ kb = get_buttons(btn_text_edits, btn_url_edits)
            /\ calls[c].markup.set <=> ValidRows # {}

C6_Witness ==
    /\ Len(calls) = 1
    /\ Len(calls[1].markup.keyboard) = 2
    /\ \E i, j \in ValidRows :
           \E k \in 1..NumButtons :
               /\ i < k /\ k < j
               /\ btn_text_edits[k] # <<>>
               /\ btn_url_edits[k] = <<>>

\* C7: a send action whose remote call or whose opening of the attachment
\* fails reports DispatchFailed with the text of the error, has made at
\* most one call (none when the file did not open), and leaves the held
\* attachment, the entered fields, the config record and the file as they
\* were.
C7_FailureKeepsState ==
    [][ SendStep /\ status'.msg = SendFailed
          => /\ status'.detail \in {"OSError", "ApiException"}
             /\ Len(calls') = (IF status'.detail = "OSError" THEN 0 ELSE 1)
             /\ UNCHANGED <<held, fields, config, disk, send_btn>> ]_vars

C7_Witness ==
    /\ op = "send_message"
    /\ status = Shown(SendFailed, "ApiException")
    /\ Len(calls) = 1
    /\ file_path # None

\* C8: whatever the config file holds, load_config() returns a record and
\* startup (load_config, then reading token and chat_id) does not crash.
C8_StartupNeverCrashes ==
    op = "__init__" => phase = "running" /\ config.kind = "dict"

\* C9: after a completed save the file loads as exactly the record that
\* was saved, and an absent file loads as the empty record.
C9_SaveLoadRoundTrip ==
    /\ (status.msg \in {"Token saved", "Chat ID saved"} => load_config_of(disk) = config)
    /\ (disk = Absent => load_config_of(disk) = EmptyDict)

C9_Witness ==
    /\ status.msg = "Token saved"
    /\ Len(config.items) >= 2
    /\ Contains(DictGet(config, "token", Str(<<>>)).s, "\\")

\* C10: when the process stops during a save, the next load returns the
\* record stored before the save or the new record in full.
C10_SaveAtomic ==
    [][ /\ (op' = "save_token killed"
              => load_config_of(disk') \in
                   { load_config_of(disk),
                     DictSet(config, "token", Str(Strip(token_edit))) })
        /\ (op' = "save_chatid killed"
              => load_config_of(disk') \in
                   { load_config_of(disk),
                     DictSet(config, "chat_id", Str(Strip(chatid_edit))) }) ]_vars

====
